---- MODULE Spec2Model ----
(***************************************************************************)
(* A model of the wallet core of romanz/electron: the BIP32 key            *)
(* derivation and serialization of lib/bip32.py, the address codec of      *)
(* lib/keys.py and the gap-limit key lists and Account of lib/account.py.  *)
(*                                                                         *)
(* The elliptic curve is scaled down from SECP256k1 to the curve           *)
(* y^2 = x^3 + 7 over GF(43), a group of prime order 31, so that every     *)
(* point, scalar and HMAC output can be enumerated.  The curve keeps the   *)
(* properties the code relies on: a = 0, b = 7, p = 3 (mod 4), prime       *)
(* order, and an order just below the power of two that bounds L.          *)
(***************************************************************************)
EXTENDS Integers, Sequences, FiniteSets, TLC

(***************************************************************************)
(* Bounds of the model.                                                    *)
(***************************************************************************)
MaxIndex == 5
MaxKeyLen == 1
MaxGap == 2
MaxPasses == 2
MaxDepth == 1
MaxAccIndex == 1
MaxAccGap == 1
MaxHistory == 1
MaxScript == 5
MaxChild == 2

(***************************************************************************)
(* Byte strings: sequences of 0..255.                                      *)
(***************************************************************************)
Zeros(k) == [i \in 1..k |-> 0]

Slice(s, from, to) == [i \in 1..(to - from) |-> s[from + i]]

bytes_to_int(be_bytes) ==
    LET value[i \in 0..Len(be_bytes)] ==
            IF i = 0 THEN 0 ELSE 256 * value[i - 1] + be_bytes[i]
    IN  value[Len(be_bytes)]

RECURSIVE int_to_bytes(_)
int_to_bytes(value) ==
    IF value = 0 THEN <<>>
    ELSE Append(int_to_bytes(value \div 256), value % 256)

exponent_to_bytes(exponent) ==
    LET padded == Zeros(32) \o int_to_bytes(exponent)
    IN  Slice(padded, Len(padded) - 32, Len(padded))

pack_I(n) ==
    << (n \div 16777216) % 256, (n \div 65536) % 256, (n \div 256) % 256, n % 256 >>

unpack_I(b) == bytes_to_int(b)

(***************************************************************************)
(* The curve (ecdsa.SECP256k1 scaled down).                                *)
(***************************************************************************)
FieldP == 43
CurveB == 7
CurveOrder == 31
LBits == 5
INFINITY == << >>
Generator == << 2, 12 >>

RECURSIVE PowMod(_, _, _)
PowMod(a, e, m) ==
    IF e = 0 THEN 1 % m
    ELSE IF e % 2 = 0 THEN PowMod((a * a) % m, e \div 2, m)
    ELSE (a * PowMod(a, e - 1, m)) % m

InvMod(a) == PowMod(a % FieldP, FieldP - 2, FieldP)

OnCurve(P) ==
    /\ P # INFINITY
    /\ (P[2] * P[2]) % FieldP = (P[1] * P[1] * P[1] + CurveB) % FieldP

PointAdd(P, Q) ==
    IF P = INFINITY THEN Q
    ELSE IF Q = INFINITY THEN P
    ELSE IF P[1] = Q[1] /\ (P[2] + Q[2]) % FieldP = 0 THEN INFINITY
    ELSE LET lam == IF P = Q
                    THEN (3 * P[1] * P[1] * InvMod(2 * P[2])) % FieldP
                    ELSE ((Q[2] - P[2]) * InvMod(Q[1] - P[1])) % FieldP
             x3 == (lam * lam - P[1] - Q[1]) % FieldP
             y3 == (lam * (P[1] - x3) - P[2]) % FieldP
         IN  << x3, y3 >>

RECURSIVE PointMul(_, _)
PointMul(P, k) ==
    IF k = 0 \/ P = INFINITY THEN INFINITY
    ELSE IF k % 2 = 0 THEN PointMul(PointAdd(P, P), k \div 2)
    ELSE PointAdd(P, PointMul(P, k - 1))

square_root_mod_prime(a) ==
    LET y == PowMod(a, (FieldP + 1) \div 4, FieldP)
    IN  IF (y * y) % FieldP = a % FieldP THEN y ELSE -1

(***************************************************************************)
(* lib/hash.py is not part of the given sources.  HMAC-SHA512 and hash160  *)
(* are stand-ins with the interface the callers use: hmac_sha512 returns   *)
(* 64 bytes whose first half is L (here below 2^LBits) and whose second    *)
(* half is R; hash160 returns 20 bytes.                                    *)
(***************************************************************************)
\* the nonlinear step of the digest, tabulated
Mix == [x \in 0..1020 |-> (x * x + 11 * x) % 1021]

RECURSIVE DigestRange(_, _, _)
DigestRange(s, lo, hi) ==
    IF lo > hi THEN 0
    ELSE IF lo = hi THEN (s[lo] * 7 + lo) % 1021
    ELSE (DigestRange(s, lo, (lo + hi) \div 2) * 33
          + Mix[DigestRange(s, (lo + hi) \div 2 + 1, hi)] + 1) % 1021

Digest(h, s) == (Mix[(DigestRange(s, 1, Len(s)) + h) % 1021] + 3) % 1021

hmac_sha512(key, msg) ==
    LET d == Digest(17, key \o msg)
    IN  exponent_to_bytes(d % (2 ^ LBits)) \o Zeros(30) \o << d \div 256, d % 256 >>

hash160(data) ==
    LET d == Digest(29, data)
    IN  << d \div 256, d % 256 >> \o Zeros(18)

(***************************************************************************)
(* Results.  An operation that raises returns an Error record; a key is a  *)
(* record of kind "pub" (key = curve point) or "priv" (key = exponent).    *)
(***************************************************************************)
Error(e) == [kind |-> "error", err |-> e]

IsError(r) == r.kind = "error"

(***************************************************************************)
(* Child numbers are scaled from 32 bits to 16 (TLC's integers are 32-bit  *)
(* signed): MasterPrivKey.HARDENED = 1 << 31 becomes 1 << 15 and the limit *)
(* 1 << 32 becomes 1 << 16.  They are still packed into four bytes.        *)
(***************************************************************************)
HARDENED == 32768
ChildLimit == 65536

\* _KeyBase.__init__
KeyBase_check(chain_code, n, depth, parent_fingerprint) ==
    IF Len(chain_code) # 32 THEN "ValueError"
    ELSE IF ~(0 <= n /\ n < ChildLimit) THEN "ValueError"
    ELSE IF ~(0 <= depth /\ depth < 256) THEN "ValueError"
    ELSE IF Len(parent_fingerprint) # 4 THEN "ValueError"
    ELSE "ok"

\* _KeyBase._hmac_sha512
KeyBase_hmac_sha512(self, msg) ==
    LET hmac == hmac_sha512(self.chain_code, msg)
    IN  << Slice(hmac, 0, 32), Slice(hmac, 32, 64) >>

\* MasterPubKey._verifying_key_from_pubkey: the point, or an Error
verifying_key_from_pubkey(pubkey) ==
    IF Len(pubkey) # 33 THEN Error("ValueError")
    ELSE IF pubkey[1] \notin {2, 3} THEN Error("ValueError")
    ELSE LET is_odd == pubkey[1] = 3
             x == bytes_to_int(Slice(pubkey, 1, 33))
             y2 == PowMod(x, 3, FieldP) + CurveB
             y == square_root_mod_prime(y2 % FieldP)
         IN  IF y = -1 THEN Error("SquareRootError")
             ELSE [kind |-> "point",
                   point |-> << x, IF (y % 2 = 1) # is_odd THEN FieldP - y ELSE y >>]

\* MasterPubKey.__init__ given an ecdsa.VerifyingKey
MasterPubKey(point, chain_code, n, depth, pfingerprint) ==
    IF KeyBase_check(chain_code, n, depth, pfingerprint) # "ok"
    THEN Error(KeyBase_check(chain_code, n, depth, pfingerprint))
    ELSE [kind |-> "pub", key |-> point, chain_code |-> chain_code, n |-> n,
          depth |-> depth, parent_fingerprint |-> pfingerprint]

\* MasterPubKey.__init__ given a compressed public key
MasterPubKeyFromBytes(pubkey, chain_code, n, depth, pfingerprint) ==
    IF KeyBase_check(chain_code, n, depth, pfingerprint) # "ok"
    THEN Error(KeyBase_check(chain_code, n, depth, pfingerprint))
    ELSE LET vk == verifying_key_from_pubkey(pubkey)
         IN  IF IsError(vk) THEN vk
             ELSE MasterPubKey(vk.point, chain_code, n, depth, pfingerprint)

\* MasterPubKey.compressed_pubkey
compressed_pubkey(point) ==
    << 2 + (point[2] % 2) >> \o exponent_to_bytes(point[1])

\* MasterPrivKey._privkey_secret_exponent: the exponent, or -1 for ValueError
privkey_secret_exponent(privkey) ==
    IF Len(privkey) # 32 THEN -1
    ELSE IF ~(1 <= bytes_to_int(privkey) /\ bytes_to_int(privkey) < CurveOrder) THEN -1
    ELSE bytes_to_int(privkey)

\* MasterPrivKey.__init__ given the 32 private key bytes
MasterPrivKey(privkey, chain_code, n, depth, pfingerprint) ==
    IF KeyBase_check(chain_code, n, depth, pfingerprint) # "ok"
    THEN Error(KeyBase_check(chain_code, n, depth, pfingerprint))
    ELSE IF privkey_secret_exponent(privkey) = -1 THEN Error("ValueError")
    ELSE [kind |-> "priv", key |-> privkey_secret_exponent(privkey),
          chain_code |-> chain_code, n |-> n,
          depth |-> depth, parent_fingerprint |-> pfingerprint]

\* MasterPrivKey.from_seed
from_seed(seed) ==
    LET hmac == hmac_sha512(<< 66, 105, 116, 99, 111, 105, 110, 32, 115, 101, 101, 100 >>, seed)
    IN  MasterPrivKey(Slice(hmac, 0, 32), Slice(hmac, 32, 64), 0, 0, Zeros(4))

\* MasterPrivKey.privkey_bytes
privkey_bytes(self) == exponent_to_bytes(self.key)

\* MasterPrivKey.public_key
public_key(self) ==
    MasterPubKey(PointMul(Generator, self.key), self.chain_code, self.n, self.depth,
                 self.parent_fingerprint)

\* MasterPubKey.pubkey_bytes, and MasterPrivKey.public_key.pubkey_bytes
pubkey_bytes(self) ==
    IF self.kind = "pub" THEN compressed_pubkey(self.key)
    ELSE compressed_pubkey(public_key(self).key)

\* MasterPubKey.identifier, MasterPrivKey.identifier
identifier(self) == hash160(pubkey_bytes(self))

\* _KeyBase.fingerprint
fingerprint(self) == Slice(identifier(self), 0, 4)

\* child_verkey_R without the test of L against the order
child_verkey_R_any_L(self, n) ==
    IF ~(0 <= n /\ n < HARDENED) THEN Error("ValueError")
    ELSE LET msg == pubkey_bytes(self) \o pack_I(n)
             Derive(L, R) ==
                 LET Check(point) ==
                         IF point = INFINITY THEN Error("DerivationError")
                         ELSE [kind |-> "verkey_R", point |-> point, R |-> R]
                 IN  Check(PointAdd(PointMul(Generator, L), self.key))
             Split(LR) == Derive(bytes_to_int(LR[1]), LR[2])
         IN  Split(KeyBase_hmac_sha512(self, msg))

\* child_verkey_R accepting every 32-bit child number
child_verkey_R_any_number(self, n) ==
    IF ~(0 <= n /\ n < ChildLimit) THEN Error("ValueError")
    ELSE LET msg == pubkey_bytes(self) \o pack_I(n)
             Derive(L, R) ==
                 IF L >= CurveOrder THEN Error("DerivationError")
                 ELSE LET Check(point) ==
                              IF point = INFINITY THEN Error("DerivationError")
                              ELSE [kind |-> "verkey_R", point |-> point, R |-> R]
                      IN  Check(PointAdd(PointMul(Generator, L), self.key))
             Split(LR) == Derive(bytes_to_int(LR[1]), LR[2])
         IN  Split(KeyBase_hmac_sha512(self, msg))

\* MasterPubKey.child_verkey_R: [kind |-> "verkey_R", point, R], or an Error
child_verkey_R(self, n) ==
    IF ~(0 <= n /\ n < HARDENED) THEN Error("ValueError")
    ELSE LET msg == pubkey_bytes(self) \o pack_I(n)
             Derive(L, R) ==
                 IF L >= CurveOrder THEN Error("DerivationError")
                 ELSE LET Check(point) ==
                              IF point = INFINITY THEN Error("DerivationError")
                              ELSE [kind |-> "verkey_R", point |-> point, R |-> R]
                      IN  Check(PointAdd(PointMul(Generator, L), self.key))
             Split(LR) == Derive(bytes_to_int(LR[1]), LR[2])
         IN  Split(KeyBase_hmac_sha512(self, msg))

\* MasterPubKey.child
MasterPubKey_child(self, n) ==
    LET Make(vr) ==
            IF IsError(vr) THEN vr
            ELSE MasterPubKey(vr.point, vr.R, n, self.depth + 1, fingerprint(self))
    IN  Make(child_verkey_R(self, n))

\* MasterPubKey.child_compressed_pubkey: [kind |-> "bytes", bytes], or an Error
child_compressed_pubkey(self, n) ==
    LET Make(vr) ==
            IF IsError(vr) THEN vr
            ELSE [kind |-> "bytes", bytes |-> compressed_pubkey(vr.point)]
    IN  Make(child_verkey_R(self, n))

\* MasterPrivKey.child without the test of L against the order
MasterPrivKey_child_any_L(self, n) ==
    IF ~(0 <= n /\ n < ChildLimit) THEN Error("ValueError")
    ELSE LET serkey == IF n >= HARDENED THEN << 0 >> \o privkey_bytes(self)
                       ELSE pubkey_bytes(self)
             msg == serkey \o pack_I(n)
             Derive(L, R, exponent) ==
                 IF exponent = 0 THEN Error("DerivationError")
                 ELSE MasterPrivKey(exponent_to_bytes(exponent), R, n, self.depth + 1,
                                    fingerprint(self))
             Sum(L, R) ==
                 Derive(L, R, (L + bytes_to_int(privkey_bytes(self))) % CurveOrder)
             Split(LR) == Sum(bytes_to_int(LR[1]), LR[2])
         IN  Split(KeyBase_hmac_sha512(self, msg))

\* MasterPrivKey.child handing on the fingerprint the parent was given
MasterPrivKey_child_handed_on(self, n) ==
    IF ~(0 <= n /\ n < ChildLimit) THEN Error("ValueError")
    ELSE LET serkey == IF n >= HARDENED THEN << 0 >> \o privkey_bytes(self)
                       ELSE pubkey_bytes(self)
             msg == serkey \o pack_I(n)
             Derive(L, R, exponent) ==
                 IF exponent = 0 \/ L >= CurveOrder THEN Error("DerivationError")
                 ELSE MasterPrivKey(exponent_to_bytes(exponent), R, n, self.depth + 1,
                                    self.parent_fingerprint)
             Sum(L, R) ==
                 Derive(L, R, (L + bytes_to_int(privkey_bytes(self))) % CurveOrder)
             Split(LR) == Sum(bytes_to_int(LR[1]), LR[2])
         IN  Split(KeyBase_hmac_sha512(self, msg))

\* MasterPrivKey.child
MasterPrivKey_child(self, n) ==
    IF ~(0 <= n /\ n < ChildLimit) THEN Error("ValueError")
    ELSE LET serkey == IF n >= HARDENED THEN << 0 >> \o privkey_bytes(self)
                       ELSE pubkey_bytes(self)
             msg == serkey \o pack_I(n)
             Derive(L, R, exponent) ==
                 IF exponent = 0 \/ L >= CurveOrder THEN Error("DerivationError")
                 ELSE MasterPrivKey(exponent_to_bytes(exponent), R, n, self.depth + 1,
                                    fingerprint(self))
             Sum(L, R) ==
                 Derive(L, R, (L + bytes_to_int(privkey_bytes(self))) % CurveOrder)
             Split(LR) == Sum(bytes_to_int(LR[1]), LR[2])
         IN  Split(KeyBase_hmac_sha512(self, msg))

\* _KeyBase._extended_key
KeyBase_extended_key(self, ver_bytes, raw_serkey) ==
    IF Len(ver_bytes) # 4 THEN Error("ValueError")
    ELSE IF Len(raw_serkey) # 33 THEN Error("ValueError")
    ELSE [kind |-> "bytes",
          bytes |-> ver_bytes \o << self.depth >> \o self.parent_fingerprint
                    \o pack_I(self.n) \o self.chain_code \o raw_serkey]

\* MasterPubKey.extended_key, MasterPrivKey.extended_key
extended_key(self, ver_bytes) ==
    IF self.kind = "pub" THEN KeyBase_extended_key(self, ver_bytes, pubkey_bytes(self))
    ELSE KeyBase_extended_key(self, ver_bytes, << 0 >> \o privkey_bytes(self))

\* _from_extended_key reading the depth one byte early
from_extended_key_depth3(ekey) ==
    IF Len(ekey) # 78 THEN Error("ValueError")
    ELSE LET depth == ekey[3 + 1]
             pfingerprint == Slice(ekey, 5, 9)
             n == unpack_I(Slice(ekey, 9, 13))
             chain_code == Slice(ekey, 13, 45)
         IN  IF ekey[45 + 1] # 0
             THEN MasterPubKeyFromBytes(Slice(ekey, 45, 78), chain_code, n, depth, pfingerprint)
             ELSE MasterPrivKey(Slice(ekey, 46, 78), chain_code, n, depth, pfingerprint)

\* _from_extended_key
from_extended_key(ekey) ==
    IF Len(ekey) # 78 THEN Error("ValueError")
    ELSE LET depth == ekey[4 + 1]
             pfingerprint == Slice(ekey, 5, 9)
             n == unpack_I(Slice(ekey, 9, 13))
             chain_code == Slice(ekey, 13, 45)
         IN  IF ekey[45 + 1] # 0
             THEN MasterPubKeyFromBytes(Slice(ekey, 45, 78), chain_code, n, depth, pfingerprint)
             ELSE MasterPrivKey(Slice(ekey, 46, 78), chain_code, n, depth, pfingerprint)

(***************************************************************************)
(* lib/keys.py: Address, HDPublicKey.                                      *)
(***************************************************************************)
ADDR_P2PKH == 0
ADDR_P2SH == 1

\* PublicKeyBase._validate_bytes
validate_bytes(pubkey) ==
    IF Len(pubkey) = 33 /\ pubkey[1] \in {2, 3} THEN "ok"
    ELSE IF Len(pubkey) = 65 /\ pubkey[1] = 4 THEN "ok"
    ELSE "KeyError"

\* HDPublicKey.from_bytes
HDPublicKey_from_bytes(pubkey, n) ==
    IF validate_bytes(pubkey) # "ok" THEN Error("KeyError")
    ELSE [kind |-> "hdpubkey", pubkey |-> pubkey, n |-> n]

\* Address.__new__
Address(h160, kind) ==
    IF Len(h160) # 20 THEN Error("AddressError")
    ELSE [kind |-> "address", hash160 |-> h160, addr_kind |-> kind]

\* PublicKeyBase.address
PublicKeyBase_address(self) == Address(hash160(self.pubkey), ADDR_P2PKH)

\* Address.from_P2PKH_hash, Address.from_P2SH_hash on the hash160 of some bytes
Address_from_hash(data, kind) == Address(hash160(data), kind)

(***************************************************************************)
(* Text.  A string is a record [kind |-> "str", chars] of character codes; *)
(* None is what a Python function returns when it ends without a return.   *)
(***************************************************************************)
Str(chars) == [kind |-> "str", chars |-> chars]

PyNone == [kind |-> "None"]

Upper(chars) ==
    [i \in 1..Len(chars) |->
        IF chars[i] >= 97 /\ chars[i] <= 122 THEN chars[i] - 32 ELSE chars[i]]

StartsWith(chars, prefix) ==
    Len(chars) >= Len(prefix) /\ SubSeq(chars, 1, Len(prefix)) = prefix

(***************************************************************************)
(* NetworkConstants, Base58 (lib/hash.py) and lib/cashaddr.py are not part *)
(* of the given sources.  The constants are those of the Bitcoin Cash main *)
(* network.  The codecs are stand-ins with the documented behaviour:       *)
(* encode_check appends a 4-byte checksum and decode_check verifies and    *)
(* strips it; cashaddr.encode writes the kind, the hash and a checksum     *)
(* over prefix, kind and hash as 42 characters and cashaddr.decode splits  *)
(* "prefix:payload", verifies and returns prefix, kind and hash.           *)
(***************************************************************************)
ADDRTYPE_P2PKH == 0
ADDRTYPE_P2SH == 5
ADDRTYPE_P2PKH_BITPAY == 28
ADDRTYPE_P2SH_BITPAY == 40
CASHADDR_PREFIX == << 98, 105, 116, 99, 111, 105, 110, 99, 97, 115, 104 >>
PUBKEY_TYPE == 0
SCRIPT_TYPE == 1
Colon == 58

Checksum4(payload) ==
    << Digest(53, payload) \div 256, Digest(53, payload) % 256, 0, 0 >>

Base58_encode_check(payload) == Str(payload \o Checksum4(payload))

\* [kind |-> "bytes", bytes], or an Error
Base58_decode_check(string) ==
    IF Len(string.chars) < 4 THEN Error("Base58Error")
    ELSE LET payload == SubSeq(string.chars, 1, Len(string.chars) - 4)
             check == SubSeq(string.chars, Len(string.chars) - 3, Len(string.chars))
         IN  IF check # Checksum4(payload) THEN Error("Base58Error")
             ELSE [kind |-> "bytes", bytes |-> payload]

\* sixteen characters of the cashaddr alphabet, one per half byte
Charset ==
    << 113, 112, 122, 114, 121, 57, 120, 56, 103, 102, 50, 116, 118, 100, 119, 48 >>

CharIndex(c) ==
    IF \E i \in 1..16 : Charset[i] = c
    THEN (CHOOSE i \in 1..16 : Charset[i] = c) - 1
    ELSE -1

ChecksumChar(prefix, kind, addr_hash) ==
    Charset[(Digest(41, prefix \o << kind >> \o addr_hash) % 16) + 1]

cashaddr_encode(prefix, kind, addr_hash) ==
    Str(<< Charset[kind + 1] >>
        \o [i \in 1..(2 * Len(addr_hash)) |->
               IF i % 2 = 1 THEN Charset[(addr_hash[(i + 1) \div 2] \div 16) + 1]
               ELSE Charset[(addr_hash[i \div 2] % 16) + 1]]
        \o << ChecksumChar(prefix, kind, addr_hash) >>)

\* [kind |-> "cashaddr", prefix, type, hash], or an Error
cashaddr_decode(string) ==
    LET chars == string.chars
        colons == { i \in 1..Len(chars) : chars[i] = Colon }
    IN  IF Cardinality(colons) # 1 THEN Error("ValueError")
        ELSE LET at == CHOOSE i \in colons : TRUE
                 prefix == SubSeq(chars, 1, at - 1)
                 payload == SubSeq(chars, at + 1, Len(chars))
                 digits == [i \in 1..Len(payload) |-> CharIndex(payload[i])]
             IN  IF Len(payload) # 42 \/ \E i \in 1..42 : digits[i] = -1
                 THEN Error("ValueError")
                 ELSE LET type == digits[1]
                          addr_hash == [i \in 1..20 |->
                                           16 * digits[2 * i] + digits[2 * i + 1]]
                      IN  IF type \notin {PUBKEY_TYPE, SCRIPT_TYPE}
                             \/ payload[42] # ChecksumChar(prefix, type, addr_hash)
                          THEN Error("ValueError")
                          ELSE [kind |-> "cashaddr", prefix |-> prefix, type |-> type,
                                hash |-> addr_hash]

\* Address.from_string
Address_from_string(string) ==
    LET Decoded(raw) ==
            IF IsError(raw) THEN raw
            ELSE IF Len(raw.bytes) # 21 THEN Error("AddressError")
            ELSE LET verbyte == raw.bytes[1]
                     h160 == Slice(raw.bytes, 1, 21)
                 IN  IF verbyte \in {ADDRTYPE_P2PKH, ADDRTYPE_P2PKH_BITPAY}
                     THEN Address(h160, ADDR_P2PKH)
                     ELSE IF verbyte \in {ADDRTYPE_P2SH, ADDRTYPE_P2SH_BITPAY}
                     THEN Address(h160, ADDR_P2SH)
                     ELSE Error("AddressError")
    IN  Decoded(Base58_decode_check(string))

FMT_CASHADDR == 0
FMT_LEGACY == 1
FMT_BITPAY == 2

\* BCHAddress.from_cashaddr_string
from_cashaddr_string(string) ==
    LET prefix == IF Upper(string.chars) = string.chars THEN Upper(CASHADDR_PREFIX)
                  ELSE CASHADDR_PREFIX
        full == IF StartsWith(string.chars, prefix \o << Colon >>) THEN string
                ELSE Str(prefix \o << Colon >> \o string.chars)
        Decoded(d) ==
            IF IsError(d) THEN d
            ELSE IF d.prefix # prefix THEN Error("AddressError")
            ELSE IF d.type = PUBKEY_TYPE THEN Address(d.hash, ADDR_P2PKH)
            ELSE Address(d.hash, ADDR_P2SH)
    IN  Decoded(cashaddr_decode(full))

\* BCHAddress.from_string; len(None) raises TypeError
BCHAddress_from_string(string) ==
    IF string = PyNone THEN Error("TypeError")
    ELSE IF Len(string.chars) > 35 THEN from_cashaddr_string(string)
    ELSE Address_from_string(string)

\* BCHAddress.to_cashaddr
to_cashaddr(self) ==
    LET kind == IF self.addr_kind = ADDR_P2PKH THEN PUBKEY_TYPE ELSE SCRIPT_TYPE
    IN  cashaddr_encode(CASHADDR_PREFIX, kind, self.hash160)

\* BCHAddress.to_string: the legacy and BitPay branches choose verbyte and
\* reach the end of the function without a return statement
BCHAddress_to_string(self, fmt) ==
    IF fmt = FMT_CASHADDR THEN to_cashaddr(self)
    ELSE IF fmt = FMT_LEGACY
    THEN LET verbyte == IF self.addr_kind = ADDR_P2PKH THEN ADDRTYPE_P2PKH
                        ELSE ADDRTYPE_P2SH
         IN  PyNone
    ELSE IF fmt = FMT_BITPAY
    THEN LET verbyte == IF self.addr_kind = ADDR_P2PKH THEN ADDRTYPE_P2PKH_BITPAY
                        ELSE ADDRTYPE_P2SH_BITPAY
         IN  PyNone
    ELSE Error("AddressError")

(***************************************************************************)
(* lib/account.py                                                          *)
(***************************************************************************)
VARIABLES
    assertions,        \* TRUE unless the interpreter strips assert statements
    master_pubkey,     \* BIP32PubKeyList.master_pubkey of each branch
    gap_limit,         \* HDPubKeyList.gap_limit of each branch
    pubkeys,           \* PubKeyList.pubkeys of each branch
    history,           \* Account.history
    gap_check_event,   \* Account.gap_check_event, an event flag
    passes,            \* wake-ups of sync_gap_limit so far
    synced,            \* sync() has run
    subscribed,        \* addresses handed to subscribe()
    closed,            \* the account was closed
    loop_pc,           \* where the sync_gap_limit coroutine is
    last,              \* the last list or history operation, its arguments and its result
    key,               \* a MasterPrivKey or MasterPubKey
    ekey,              \* the 78 bytes of an extended key, << >> before serialization
    tampered,          \* byte 45 of ekey was overwritten
    decoded,           \* what _from_extended_key returned or raised for ekey
    derived,           \* the last child(n) call: its receiver, n and what it returned or raised
    address,           \* a BCHAddress
    fmt,               \* the format handed to to_string, -1 for a string typed in
    string,            \* what to_string returned or raised, or a string typed in
    parsed             \* what from_string returned or raised for string

account_vars == << assertions, master_pubkey, gap_limit, pubkeys, history,
                   gap_check_event, passes, synced, subscribed, closed, loop_pc, last >>

key_vars == << key, ekey, tampered, decoded, derived >>

address_vars == << address, fmt, string, parsed >>

vars == << account_vars, key_vars, address_vars >>

\* nothing computed yet
NotYet == [kind |-> "not yet"]

Branches == {"rec", "chg"}

\* seeds of the master key: with << 3 >> the derivation of index 2 of the receive
\* branch fails, with << 12 >> that of index 5, with << 34 >> that of index 1
Seeds == { << 15 >>, << 3 >>, << 12 >> }

AccountSeeds == { << 15 >>, << 34 >> }

\* the gap limit 5 is that of the documented scenario
GapLimits == 1..MaxGap \cup {5}

\* BIP32PubKeyList.child
BIP32PubKeyList_child(root, n) ==
    LET Make(pubkey_bytes_n) ==
            IF IsError(pubkey_bytes_n) THEN pubkey_bytes_n
            ELSE HDPublicKey_from_bytes(pubkey_bytes_n.bytes, n)
    IN  Make(child_compressed_pubkey(root, n))

\* HDPubKeyList.generate_key: the new list and the error raised, if any
generate_key(root, list, n) ==
    LET AppendChild(c) ==
            IF IsError(c) THEN [list |-> list, err |-> c.err]
            ELSE [list |-> Append(list, [pubkey |-> c.pubkey, n |-> c.n]), err |-> "none"]
    IN  AppendChild(BIP32PubKeyList_child(root, n))

\* generate_range with the end index included
RECURSIVE generate_range_inclusive(_, _, _, _)
generate_range_inclusive(root, list, n, end) ==
    IF n > end THEN [list |-> list, err |-> "none"]
    ELSE LET Continue(r) ==
                 IF r.err # "none" THEN r
                 ELSE generate_range_inclusive(root, r.list, n + 1, end)
         IN  Continue(generate_key(root, list, n))

\* the for loop of HDPubKeyList.generate_gap
RECURSIVE generate_range(_, _, _, _)
generate_range(root, list, n, end) ==
    IF n >= end THEN [list |-> list, err |-> "none"]
    ELSE LET Continue(r) ==
                 IF r.err # "none" THEN r
                 ELSE generate_range(root, r.list, n + 1, end)
         IN  Continue(generate_key(root, list, n))

\* generate_gap restarting from the length of the list instead of the last index
generate_gap_from_len(root, g, list, max_used, asserting) ==
    IF asserting /\ ~(max_used >= -1) THEN [list |-> list, err |-> "AssertionError"]
    ELSE generate_range(root, list, Len(list) + 1, max_used + g + 1)

\* HDPubKeyList.generate_gap
generate_gap(root, g, list, max_used, asserting) ==
    IF asserting /\ ~(max_used >= -1) THEN [list |-> list, err |-> "AssertionError"]
    ELSE LET start == IF Len(list) > 0 THEN list[Len(list)].n + 1 ELSE 0
             end == max_used + g + 1
         IN  generate_range(root, list, start, end)

\* HDPubKeyList.is_beyond_limit: the name BIP32PublicKey is bound nowhere
is_beyond_limit(g, pubkey, max_used, asserting) ==
    IF asserting THEN [err |-> "NameError", value |-> FALSE]
    ELSE [err |-> "none", value |-> pubkey.n > max_used + g]

BranchIndex(b) == IF b = "rec" THEN 0 ELSE 1

Hists == { << >>, << "tx" >> }

NoOp == [op |-> "init", branch |-> "rec", n |-> 0, addr |-> Error("none"),
         hist |-> << >>, before |-> << >>, err |-> "none", value |-> FALSE]

\* the addresses of a list's keys (Account.rec_addr_list, Account.chg_addr_list)
addr_list(list) == { PublicKeyBase_address(list[i]) : i \in 1..Len(list) }

\* BIP32Account.__init__ on the public key of a seed's root, Account.__init__
InitAccount(seeds, limits, asserting) ==
    /\ assertions \in asserting
    /\ \E seed \in seeds :
          LET M == public_key(from_seed(seed))
          IN  /\ \A b \in Branches : ~IsError(MasterPubKey_child(M, BranchIndex(b)))
              /\ master_pubkey = [b \in Branches |-> MasterPubKey_child(M, BranchIndex(b))]
    /\ gap_limit \in limits
    /\ pubkeys = [b \in Branches |-> << >>]
    /\ history = << >>
    /\ gap_check_event = FALSE
    /\ passes = 0
    /\ synced = FALSE
    /\ subscribed = {}
    /\ closed = FALSE
    /\ loop_pc = "wait"
    /\ last = NoOp

\* no extended key in hand
NoKeys ==
    /\ key = NotYet
    /\ ekey = << >>
    /\ tampered = FALSE
    /\ decoded = NotYet
    /\ derived = NotYet

\* no address in hand
NoAddress ==
    /\ address = NotYet
    /\ fmt = -1
    /\ string = NotYet
    /\ parsed = NotYet

\* an account, run by an interpreter that keeps the assert statements
Init ==
    /\ InitAccount(AccountSeeds, [Branches -> 1..MaxAccGap], {TRUE})
    /\ NoKeys
    /\ NoAddress

\* a key list, run with or without the assert statements
InitList ==
    /\ InitAccount(Seeds, { [b \in Branches |-> g] : g \in GapLimits }, BOOLEAN)
    /\ NoKeys
    /\ NoAddress

AccountUnchanged ==
    UNCHANGED << history, gap_check_event, passes, synced, subscribed, closed, loop_pc >>

Fixed == UNCHANGED << assertions, master_pubkey, gap_limit, key_vars, address_vars >>

\* a caller runs generate_key(n) on a branch's list
GenerateKey(b, n) ==
    /\ Len(pubkeys[b]) < MaxKeyLen
    /\ \E r \in { generate_key(master_pubkey[b], pubkeys[b], n) } :
           /\ pubkeys' = [pubkeys EXCEPT ![b] = r.list]
           /\ last' = [NoOp EXCEPT !.op = "generate_key", !.branch = b, !.n = n,
                                   !.before = pubkeys[b], !.err = r.err]
    /\ AccountUnchanged
    /\ Fixed

\* a caller runs generate_gap(max_used) on a branch's list
GenerateGap(b, max_used) ==
    /\ \E r \in { generate_gap(master_pubkey[b], gap_limit[b], pubkeys[b], max_used,
                                 assertions) } :
           /\ pubkeys' = [pubkeys EXCEPT ![b] = r.list]
           /\ last' = [NoOp EXCEPT !.op = "generate_gap", !.branch = b, !.n = max_used,
                                   !.before = pubkeys[b], !.err = r.err]
    /\ AccountUnchanged
    /\ Fixed

\* a caller runs is_beyond_limit(pubkey, max_used) on the i-th key of a list
IsBeyondLimit(b, i, max_used) ==
    /\ i \in 1..Len(pubkeys[b])
    /\ \E r \in { is_beyond_limit(gap_limit[b], pubkeys[b][i], max_used, assertions) } :
           last' = [NoOp EXCEPT !.op = "is_beyond_limit", !.branch = b, !.n = max_used,
                               !.before = << pubkeys[b][i] >>, !.err = r.err,
                               !.value = r.value]
    /\ UNCHANGED pubkeys
    /\ AccountUnchanged
    /\ Fixed

KeyIndices == 0..MaxKeyLen \cup {HARDENED}

NextList ==
    \/ \E n \in KeyIndices : GenerateKey("rec", n)
    \/ \E m \in -2..(MaxIndex - gap_limit["rec"]) : GenerateGap("rec", m)
    \/ \E i \in 1..(MaxIndex + 1), m \in -1..MaxGap : IsBeyondLimit("rec", i, m)

ListSpec == InitList /\ [][NextList]_vars

(***************************************************************************)
(* The Account.  Its gap_check_event is an event flag that starts clear;   *)
(* subscribe() hands an address to the history provider.                   *)
(***************************************************************************)
ListsUnchanged == UNCHANGED pubkeys

\* Account.sync
Sync ==
    /\ ~synced
    /\ ~closed
    /\ synced' = TRUE
    /\ subscribed' = subscribed \cup addr_list(pubkeys["rec"]) \cup addr_list(pubkeys["chg"])
    /\ last' = [NoOp EXCEPT !.op = "sync"]
    /\ UNCHANGED << history, gap_check_event, passes, closed, loop_pc >>
    /\ ListsUnchanged
    /\ Fixed

\* set_address_history extending the change list itself
SetAddressHistoryExtends(addr, hist) ==
    /\ Cardinality(DOMAIN history \cup {addr}) <= MaxHistory
    /\ history' = [a \in DOMAIN history \cup {addr} |->
                      IF a = addr THEN hist ELSE history[a]]
    /\ gap_check_event' = TRUE
    /\ pubkeys' = [pubkeys EXCEPT !["chg"] =
                      generate_gap(master_pubkey["chg"], gap_limit["chg"], pubkeys["chg"],
                                   0, assertions).list]
    /\ last' = [NoOp EXCEPT !.op = "set_address_history", !.addr = addr, !.hist = hist]
    /\ UNCHANGED << passes, synced, subscribed, closed, loop_pc >>
    /\ Fixed

\* Account.set_address_history
SetAddressHistory(addr, hist) ==
    /\ Cardinality(DOMAIN history \cup {addr}) <= MaxHistory
    /\ history' = [a \in DOMAIN history \cup {addr} |->
                      IF a = addr THEN hist ELSE history[a]]
    /\ gap_check_event' = TRUE
    /\ last' = [NoOp EXCEPT !.op = "set_address_history", !.addr = addr, !.hist = hist]
    /\ UNCHANGED << passes, synced, subscribed, closed, loop_pc >>
    /\ ListsUnchanged
    /\ Fixed

\* Account.sync_gap_limit: one turn of the while loop, wait() returning
SyncGapLimit ==
    /\ loop_pc = "wait"
    /\ gap_check_event = TRUE
    /\ passes' = IF passes < MaxPasses THEN passes + 1 ELSE passes
    /\ loop_pc' = "wait"
    /\ last' = [NoOp EXCEPT !.op = "sync_gap_limit"]
    /\ UNCHANGED << history, gap_check_event, synced, subscribed, closed >>
    /\ ListsUnchanged
    /\ Fixed

\* closing the account: the closed flag and the final signal of the design
Close ==
    /\ ~closed
    /\ closed' = TRUE
    /\ gap_check_event' = TRUE
    /\ last' = [NoOp EXCEPT !.op = "close"]
    /\ UNCHANGED << history, passes, synced, subscribed, loop_pc >>
    /\ ListsUnchanged
    /\ Fixed

\* the history provider reports on the addresses it was subscribed to
Next ==
    \/ /\ ~closed
       /\ \E b \in Branches : \E m \in -1..(MaxAccIndex - gap_limit[b]) : GenerateGap(b, m)
    \/ /\ ~closed
       /\ \E addr \in subscribed, hist \in Hists : SetAddressHistory(addr, hist)
    \/ Sync
    \/ SyncGapLimit
    \/ Close

Spec == Init /\ [][Next]_vars

FairSpec == Spec /\ WF_vars(SyncGapLimit) /\ WF_vars(Sync)

(***************************************************************************)
(* Extended keys: derivation, serialization and parsing.                   *)
(***************************************************************************)
\* with << 0 >> the private derivation of index 0 fails on L, with << 1 >>
\* that of index 1 gives the exponent 0
KeySeeds == { << 15 >>, << 3 >>, << 34 >>, << 0 >>, << 1 >> }

ChildNumbers == {-1, 0, 1, HARDENED, ChildLimit}

\* the largest depth _KeyBase.__init__ accepts
DeepestDepth == 255

\* MasterPrivKey(privkey, chain_code, 0, 255) on the bytes of a seed's root
DeepKey(seed) ==
    MasterPrivKey(privkey_bytes(from_seed(seed)), from_seed(seed).chain_code, 0,
                  DeepestDepth, Zeros(4))

\* the version bytes of xpub and xprv
VerBytes == { << 4, 136, 178, 30 >>, << 4, 136, 173, 228 >> }

TamperBytes == {0, 1, 2, 3, 4, 255}

\* MasterPrivKey.from_seed
InitKeys ==
    /\ InitAccount({ << 15 >> }, { [b \in Branches |-> 1] }, {TRUE})
    /\ key \in { from_seed(seed) : seed \in KeySeeds } \cup { DeepKey(<< 15 >>) }
    /\ ekey = << >>
    /\ tampered = FALSE
    /\ decoded = NotYet
    /\ derived = NotYet
    /\ NoAddress

KeysFrame ==
    /\ UNCHANGED account_vars
    /\ UNCHANGED address_vars

\* key.child(n): the child replaces the key in hand when the call returns
Child(n) ==
    /\ key.depth < MaxDepth \/ key.depth = DeepestDepth
    /\ \E k \in { IF key.kind = "priv" THEN MasterPrivKey_child(key, n)
                   ELSE MasterPubKey_child(key, n) } :
           /\ derived' = [kind |-> "child", self |-> key, n |-> n, result |-> k]
           /\ key' = IF IsError(k) THEN key ELSE k
    /\ ekey' = << >>
    /\ tampered' = FALSE
    /\ decoded' = NotYet
    /\ KeysFrame

\* key.public_key
PublicKey ==
    /\ key.kind = "priv"
    /\ key' = public_key(key)
    /\ ekey' = << >>
    /\ tampered' = FALSE
    /\ decoded' = NotYet
    /\ UNCHANGED derived
    /\ KeysFrame

\* key.extended_key(ver_bytes)
Serialize(ver_bytes) ==
    /\ ekey' = extended_key(key, ver_bytes).bytes
    /\ tampered' = FALSE
    /\ decoded' = NotYet
    /\ UNCHANGED << key, derived >>
    /\ KeysFrame

\* byte 45 of the serialization is overwritten before it is parsed
Tamper(byte) ==
    /\ Len(ekey) = 78
    /\ ~tampered
    /\ byte # ekey[45 + 1]
    /\ ekey' = [ekey EXCEPT ![45 + 1] = byte]
    /\ tampered' = TRUE
    /\ decoded' = NotYet
    /\ UNCHANGED << key, derived >>
    /\ KeysFrame

\* _from_extended_key(ekey)
Parse ==
    /\ Len(ekey) = 78
    /\ decoded' = from_extended_key(ekey)
    /\ UNCHANGED << key, ekey, tampered, derived >>
    /\ KeysFrame

NextKeys ==
    \/ \E n \in ChildNumbers : Child(n)
    \/ PublicKey
    \/ \E ver_bytes \in VerBytes : Serialize(ver_bytes)
    \/ \E byte \in TamperBytes : Tamper(byte)
    \/ Parse

KeySpec == InitKeys /\ [][NextKeys]_vars

(***************************************************************************)
(* Addresses: to_string and from_string.                                   *)
(***************************************************************************)
Formats == {FMT_CASHADDR, FMT_LEGACY, FMT_BITPAY, 3}

\* version bytes of legacy strings typed in, 111 being of another network
TypedVerBytes ==
    {ADDRTYPE_P2PKH, ADDRTYPE_P2SH, ADDRTYPE_P2PKH_BITPAY, ADDRTYPE_P2SH_BITPAY, 111}

\* Address.from_P2PKH_hash, Address.from_P2SH_hash
InitAddress ==
    /\ InitAccount({ << 15 >> }, { [b \in Branches |-> 1] }, {TRUE})
    /\ NoKeys
    /\ address \in { Address_from_hash(<< i >>, kind) :
                         i \in 0..MaxScript, kind \in {ADDR_P2PKH, ADDR_P2SH} }
    /\ fmt = -1
    /\ string = NotYet
    /\ parsed = NotYet

AddressFrame ==
    /\ UNCHANGED account_vars
    /\ UNCHANGED key_vars

\* address.to_string(format)
AddressToString(format) ==
    /\ fmt' = format
    /\ string' = BCHAddress_to_string(address, format)
    /\ parsed' = NotYet
    /\ UNCHANGED address
    /\ AddressFrame

\* a legacy string of the address's hash is typed in
TypeString(verbyte) ==
    /\ fmt' = -1
    /\ string' = Base58_encode_check(<< verbyte >> \o address.hash160)
    /\ parsed' = NotYet
    /\ UNCHANGED address
    /\ AddressFrame

\* BCHAddress.from_string(string), when to_string did not raise
AddressFromString ==
    /\ string # NotYet
    /\ ~IsError(string)
    /\ parsed' = BCHAddress_from_string(string)
    /\ UNCHANGED << address, fmt, string >>
    /\ AddressFrame

NextAddress ==
    \/ \E format \in Formats : AddressToString(format)
    \/ \E verbyte \in TypedVerBytes : TypeString(verbyte)
    \/ AddressFromString

AddrSpec == InitAddress /\ [][NextAddress]_vars

(***************************************************************************)
(* Properties.                                                             *)
(***************************************************************************)
Max(a, b) == IF a >= b THEN a ELSE b

Indices(list) == [i \in 1..Len(list) |-> list[i].n]

Upto(k) == [i \in 1..k |-> i - 1]

Contiguous(list) == Indices(list) = Upto(Len(list))

\* an address is used when its recorded history is not empty
Used(pubkey) ==
    /\ PublicKeyBase_address(pubkey) \in DOMAIN history
    /\ history[PublicKeyBase_address(pubkey)] # << >>

MaxUsedIndex(b) ==
    LET used == { pubkeys[b][i].n : i \in { j \in 1..Len(pubkeys[b]) : Used(pubkeys[b][j]) } }
    IN  IF used = {} THEN -1 ELSE CHOOSE n \in used : \A m \in used : m <= n

UnusedBeyond(b) ==
    { i \in 1..Len(pubkeys[b]) :
        pubkeys[b][i].n > MaxUsedIndex(b) /\ ~Used(pubkeys[b][i]) }

\* the first index of from..to whose derivation fails, to + 1 when none does
FirstFailure(root, from, to) ==
    LET failing == { k \in from..to : IsError(BIP32PubKeyList_child(root, k)) }
    IN  IF failing = {} THEN to + 1 ELSE CHOOSE k \in failing : \A j \in failing : k <= j

CalledGenerateGap ==
    /\ last.op = "generate_gap"
    /\ last.n >= -1
    /\ Contiguous(last.before)

\* C1: once sync_gap_limit has completed a pass of an open account, each
\* branch holds at least gap_limit keys without recorded history beyond the
\* highest used index.
C1_GapInvariant ==
    (passes >= 1 /\ ~closed) =>
        \A b \in Branches : Cardinality(UnusedBeyond(b)) >= gap_limit[b]

\* C2 as stated: generate_gap(max_used) on a list holding the indices 0..N-1
\* leaves it holding exactly 0..max(N-1, max_used+g).
C2_AppendsWholeRange ==
    CalledGenerateGap =>
        Indices(pubkeys[last.branch]) =
            Upto(Max(Len(last.before), last.n + gap_limit[last.branch] + 1))

\* C2 amended: generate_gap(max_used) on a list holding 0..N-1 keeps those
\* entries and appends, in increasing order, the indices from N up to
\* max_used+g, stopping before the first index whose derivation fails; it
\* returns normally exactly when none fails.
C2_AppendsUntilFailure ==
    CalledGenerateGap =>
        LET b == last.branch
            N == Len(last.before)
            top == last.n + gap_limit[b]
            k == FirstFailure(master_pubkey[b], N, top)
        IN  /\ SubSeq(pubkeys[b], 1, N) = last.before
            /\ Indices(pubkeys[b]) = Upto(Max(N, k))
            /\ (last.err = "none") <=> (k = top + 1)
            /\ (last.err # "none") =>
                   last.err = BIP32PubKeyList_child(master_pubkey[b], k).err

C2_Witness ==
    /\ CalledGenerateGap
    /\ Len(last.before) >= 1
    /\ Len(pubkeys[last.branch]) >= Len(last.before) + 2
    /\ last.err = "none"

\* C3 as stated: from an empty list, generate_gap(max_used) leaves
\* max_used + g + 2 entries (with g = 5 and max_used = -1, the indices 0..5).
C3_LengthPlusTwo ==
    (CalledGenerateGap /\ last.before = << >>) =>
        Len(pubkeys[last.branch]) = last.n + gap_limit[last.branch] + 2

\* C3 amended: from an empty list, a generate_gap(max_used) that returns
\* leaves max_used + g + 1 entries, the indices 0..max_used+g; with g = 5
\* and max_used = -1 these are the indices 0..4.
C3_LengthPlusOne ==
    (CalledGenerateGap /\ last.before = << >> /\ last.err = "none") =>
        /\ Len(pubkeys[last.branch]) = last.n + gap_limit[last.branch] + 1
        /\ Indices(pubkeys[last.branch]) = Upto(last.n + gap_limit[last.branch] + 1)
        /\ (gap_limit[last.branch] = 5 /\ last.n = -1) =>
               Indices(pubkeys[last.branch]) = << 0, 1, 2, 3, 4 >>

C3_Witness ==
    /\ CalledGenerateGap
    /\ last.before = << >>
    /\ last.err = "none"
    /\ last.n = -1
    /\ gap_limit[last.branch] = 5
    /\ Len(pubkeys[last.branch]) = 5

\* C4: whatever generate_key and generate_gap calls were made, the i-th
\* entry of a list has index i: 0..N-1, no gaps, no duplicates.
C4_IndexedFromZero == \A b \in Branches : Contiguous(pubkeys[b])

C6_EventuallySubscribed ==
    \A b \in Branches : \A i \in 1..(MaxAccIndex + 1) :
        (Len(pubkeys[b]) >= i /\ gap_check_event) ~>
            (closed \/ (Len(pubkeys[b]) >= i
                        /\ PublicKeyBase_address(pubkeys[b][i]) \in subscribed))

\* C7: once the account is closed, sync_gap_limit eventually exits.
C7_CloseEndsLoop == closed ~> (loop_pc = "exited")

\* C8: is_beyond_limit(entry, max_used) returns, and returns true exactly
\* when entry.n > max_used + g.
C8_BeyondLimit ==
    last.op = "is_beyond_limit" =>
        /\ last.err = "none"
        /\ last.value = (last.before[1].n > last.n + gap_limit[last.branch])

\* C9: for each of the three formats and both kinds, from_string of
\* to_string(fmt) returns the address: same hash160, same kind.
C9_AddressRoundTrip ==
    (fmt \in {FMT_CASHADDR, FMT_LEGACY, FMT_BITPAY} /\ parsed # NotYet) =>
        /\ ~IsError(parsed)
        /\ parsed.hash160 = address.hash160
        /\ parsed.addr_kind = address.addr_kind

\* C10: _from_extended_key of the 78 bytes extended_key wrote returns a key
\* of the same variant with the same chain code, child number, depth,
\* parent fingerprint and key material; whatever byte 45 holds, a zero
\* yields a private key or an error, a 2 or 3 a public key or an error,
\* and any other value an error.
C10_ExtendedKeyRoundTrip ==
    decoded # NotYet =>
        /\ ~tampered =>
              /\ ~IsError(decoded)
              /\ decoded.kind = key.kind
              /\ decoded.chain_code = key.chain_code
              /\ decoded.n = key.n
              /\ decoded.depth = key.depth
              /\ decoded.parent_fingerprint = key.parent_fingerprint
              /\ decoded.key = key.key
        /\ ekey[45 + 1] \notin {0, 2, 3} => IsError(decoded)
        /\ ~IsError(decoded) =>
              decoded.kind = IF ekey[45 + 1] = 0 THEN "priv" ELSE "pub"

C10_Witness ==
    /\ decoded # NotYet
    /\ ~tampered
    /\ key.kind = "pub"
    /\ key.depth > 0
    /\ key.n = 1
    /\ decoded = key

\* the message child(n) feeds to the HMAC, and the two halves it gets back
ChildMessage(self, n) ==
    (IF self.kind = "priv" /\ n >= HARDENED THEN << 0 >> \o privkey_bytes(self)
     ELSE pubkey_bytes(self)) \o pack_I(n)

ChildL(self, n) ==
    bytes_to_int(Slice(hmac_sha512(self.chain_code, ChildMessage(self, n)), 0, 32))

ChildR(self, n) == Slice(hmac_sha512(self.chain_code, ChildMessage(self, n)), 32, 64)

\* whether two records of child calls are of the same call on the same key
SameCall(d, e) ==
    /\ d.kind = e.kind
    /\ d.kind = "child" =>
          /\ d.n = e.n
          /\ d.self.kind = e.self.kind
          /\ d.self = e.self

\* C11: a child(n) call that returns gives a key of the receiver's variant
\* with depth one more than the receiver's, the receiver's fingerprint as
\* parent fingerprint, child number n and the last 32 bytes of the HMAC as
\* chain code, and the receiver is after the call what it was before.
C11_ChildFields ==
    [][(~SameCall(derived', derived) /\ ~IsError(derived'.result)) =>
          /\ derived'.self = key
          /\ derived'.result.kind = key.kind
          /\ derived'.result.depth = key.depth + 1
          /\ derived'.result.parent_fingerprint = fingerprint(key)
          /\ derived'.result.n = derived'.n
          /\ derived'.result.chain_code = ChildR(key, derived'.n)]_vars

C11_Witness ==
    /\ derived # NotYet
    /\ ~IsError(derived.result)
    /\ derived.self.kind = "priv"
    /\ derived.n = HARDENED
    /\ derived.result.depth = 1
    /\ derived.result.parent_fingerprint # derived.self.parent_fingerprint

\* hardened child numbers: the first two and the last
HardenedNumbers == {HARDENED, HARDENED + 1, ChildLimit - 1}

\* C12: child and child_compressed_pubkey of a public key raise for every
\* hardened child number, a generate_key with such a number raises and
\* leaves the list as it was, and no entry of a list has such a number.
C12_HardenedPublicFails ==
    /\ \A b \in Branches : \A n \in HardenedNumbers :
           /\ IsError(MasterPubKey_child(master_pubkey[b], n))
           /\ MasterPubKey_child(master_pubkey[b], n).err = "ValueError"
           /\ IsError(child_compressed_pubkey(master_pubkey[b], n))
           /\ IsError(BIP32PubKeyList_child(master_pubkey[b], n))
    /\ \A b \in Branches : \A i \in 1..Len(pubkeys[b]) : pubkeys[b][i].n < HARDENED
    /\ (last.op = "generate_key" /\ last.n >= HARDENED) =>
           /\ last.err = "ValueError"
           /\ pubkeys[last.branch] = last.before

C12_Witness ==
    /\ last.op = "generate_key"
    /\ last.n = HARDENED
    /\ last.err = "ValueError"
    /\ pubkeys[last.branch] = << >>

\* C13: in an open account, from a state reached by a gap-check pass, with
\* no call made since, the next step is not another pass: the loop stays at
\* its wait until set_address_history signals again.
C13_BlocksAfterPass ==
    [][(last.op = "sync_gap_limit" /\ ~closed) => passes' = passes]_vars

PrivateChildCall ==
    /\ derived # NotYet
    /\ derived.self.kind = "priv"

InRange(n) == 0 <= n /\ n < ChildLimit

\* the child exponent (L + parent exponent) mod order
ChildExponent(self, n) == (ChildL(self, n) + self.key) % CurveOrder

DerivationFails(self, n) ==
    ChildL(self, n) >= CurveOrder \/ ChildExponent(self, n) = 0

Raised(result, err) == IsError(result) /\ result.err = err

\* C14 as stated: child(n) of a private key, n in range, raises
\* DerivationError exactly when L >= order or the child exponent is 0 and
\* otherwise returns the child with that exponent and number n; out of
\* range it raises ValueError.
C14_DerivationErrorOrChild ==
    PrivateChildCall =>
        IF ~InRange(derived.n) THEN Raised(derived.result, "ValueError")
        ELSE IF DerivationFails(derived.self, derived.n)
        THEN Raised(derived.result, "DerivationError")
        ELSE /\ ~IsError(derived.result)
             /\ derived.result.key = ChildExponent(derived.self, derived.n)
             /\ derived.result.n = derived.n

\* C14 amended: as stated for a receiver of depth below 255; at depth 255 a
\* derivation that does not fail raises the ValueError of the child's
\* depth instead of returning a child.
C14_PrivateChild ==
    PrivateChildCall =>
        IF ~InRange(derived.n) THEN Raised(derived.result, "ValueError")
        ELSE IF DerivationFails(derived.self, derived.n)
        THEN Raised(derived.result, "DerivationError")
        ELSE IF derived.self.depth = DeepestDepth
        THEN Raised(derived.result, "ValueError")
        ELSE /\ ~IsError(derived.result)
             /\ derived.result.key = ChildExponent(derived.self, derived.n)
             /\ derived.result.n = derived.n

C14_Witness ==
    /\ PrivateChildCall
    /\ InRange(derived.n)
    /\ ChildL(derived.self, derived.n) < CurveOrder
    /\ ChildExponent(derived.self, derived.n) = 0
    /\ Raised(derived.result, "DerivationError")

\* normal child numbers: the first ones and the last
NormalNumbers == 0..MaxChild \cup {HARDENED - 1}

\* K.child(n) and K.public_key.child(n) both return, with the same public
\* key, or both raise, with the same error
Agree(K, n) ==
    LET Same(priv_child, pub_child) ==
            /\ IsError(priv_child) = IsError(pub_child)
            /\ IsError(priv_child) => priv_child.err = pub_child.err
            /\ ~IsError(priv_child) =>
                   /\ public_key(priv_child).key = pub_child.key
                   /\ public_key(priv_child).chain_code = pub_child.chain_code
                   /\ public_key(priv_child).n = pub_child.n
                   /\ public_key(priv_child).depth = pub_child.depth
                   /\ public_key(priv_child).parent_fingerprint
                          = pub_child.parent_fingerprint
    IN  Same(MasterPrivKey_child(K, n), MasterPubKey_child(public_key(K), n))

\* C15: for the private key in hand and every normal child number n,
\* child(n) of the key and child(n) of its public key agree: the public key
\* of the one is the other, or both raise the same error; and every private
\* child(n) call made with a normal n gave what the public derivation gives.
C15_DerivationsAgree ==
    /\ key.kind = "priv" => \A n \in NormalNumbers : Agree(key, n)
    /\ (PrivateChildCall /\ 0 <= derived.n /\ derived.n < HARDENED) =>
           /\ Agree(derived.self, derived.n)
           /\ derived.result = MasterPrivKey_child(derived.self, derived.n)

C15_Witness ==
    /\ PrivateChildCall
    /\ derived.n = 1
    /\ ~IsError(derived.result)
    /\ key.kind = "pub"
    /\ key = MasterPubKey_child(public_key(derived.self), 1)

====
